---- MODULE Spec2Model ----
(***************************************************************************)
(* A model of src/main.py: the game-tree generator gen_tree and the        *)
(* alpha-beta search alpha_beta / alpha_beta_root.                         *)
(*                                                                         *)
(* Both are recursive, single-threaded functions.  Each is an operator     *)
(* computed the way the code computes it (the for loops are the recursive  *)
(* operators gen_children, max_loop and min_loop), and each specification  *)
(* draws the arguments of one call in Init and applies the function in one *)
(* action.  What a call does besides returning (the list it drains, the    *)
(* lines it prints, the exception it raises) is part of the record the     *)
(* operator yields.                                                        *)
(*                                                                         *)
(* gen_tree is modelled for a supplied leaf_values list; the branch that   *)
(* draws random leaf values (leaf_values is None, lines 48-50) is not.     *)
(***************************************************************************)
EXTENDS Integers, Sequences, FiniteSets, TLC

VARIABLES
    pc,                 \* "start" before the call, "done" after it
    call,               \* the function called: "gen_tree", "alpha_beta_root", "alpha_beta"
    depth,              \* gen_tree's depth argument
    br_factor,          \* gen_tree's br_factor argument
    is_max,             \* the is_max argument of the call
    leaf_values,        \* the caller's list object, drained by gen_tree
    leaf_values_before, \* that list as it was when gen_tree was called
    T,                  \* the tree: gen_tree's return value, alpha_beta's node argument
    err,                \* the exception that ended the call, "none" if it returned
    alpha,              \* alpha_beta's alpha argument
    beta,               \* alpha_beta's beta argument
    verbose,            \* alpha_beta's verbose argument
    value,              \* alpha_beta's return value
    out,                \* the lines printed, in order
    hist                \* what the search did, in order, printed or not

vars == <<pc, call, depth, br_factor, is_max, leaf_values, leaf_values_before,
          T, err, alpha, beta, verbose, value, out, hist>>

----------------------------------------------------------------------------
(* Python integers.  A Python int is unbounded, and MAX_VALUE = 2^31 does  *)
(* not fit the 32-bit integers of TLC, so the int n is the record          *)
(* [hi, lo] with n = hi * 2^16 + lo and 0 <= lo < 2^16.                    *)

Radix == 2^16

Py(n) == [hi |-> n \div Radix, lo |-> n % Radix]

Succ(x) == IF x.lo = Radix - 1 THEN [hi |-> x.hi + 1, lo |-> 0]
           ELSE [hi |-> x.hi, lo |-> x.lo + 1]

Pred(x) == IF x.lo = 0 THEN [hi |-> x.hi - 1, lo |-> Radix - 1]
           ELSE [hi |-> x.hi, lo |-> x.lo - 1]

Lt(x, y) == x.hi < y.hi \/ (x.hi = y.hi /\ x.lo < y.lo)

Le(x, y) == x = y \/ Lt(x, y)

Gt(x, y) == Lt(y, x)

MIN_VALUE == [hi |-> -(2^15), lo |-> 0]

MAX_VALUE == [hi |-> 2^15, lo |-> 0]

None == [type |-> "None"]

----------------------------------------------------------------------------
(* The tree.  A name "A-a-B" is the sequence <<"A", "a", "B">>.            *)

Node(name) == [type |-> "Node", name |-> name, child_nodes |-> <<>>]

LeafNode(name, eval) ==
    [type |-> "LeafNode", name |-> name, child_nodes |-> <<>>, eval |-> eval]

Lowercase == <<"a", "b", "c", "d", "e", "f", "g", "h", "i", "j", "k", "l", "m",
               "n", "o", "p", "q", "r", "s", "t", "u", "v", "w", "x", "y", "z">>

Uppercase == <<"A", "B", "C", "D", "E", "F", "G", "H", "I", "J", "K", "L", "M",
               "N", "O", "P", "Q", "R", "S", "T", "U", "V", "W", "X", "Y", "Z">>

\* the name gen_tree gives child i of the node `name`
ChildName(name, i, max) ==
    LET child_suffix == IF ~max THEN Uppercase[i + 1] ELSE Lowercase[i + 1]
    IN  Append(name, child_suffix)

----------------------------------------------------------------------------
(* gen_tree.  The result is the node returned, the list as the call left   *)
(* it, and the exception raised ("none": the call returned).               *)

MaxDepth == 2
MaxBr == 2
MaxLen == 5

\* Python gives up on a recursion deeper than its recursion limit; the
\* interpreter's limit (1000 by default) stands here as a small bound that
\* no call with depth >= 0 reaches.
RecursionLimit == 8

Raise(exception, list) == [node |-> None, leaf_values |-> list, err |-> exception]

Return(node, list) == [node |-> node, leaf_values |-> list, err |-> "none"]

\* val = leaf_values[0]; del leaf_values[0] -- on a list that is not empty
TakeLast(list) == [val |-> list[Len(list)], rest |-> SubSeq(list, 1, Len(list) - 1)]
TakeFirstKeep(list) == [val |-> list[1], rest |-> list]
TakeFirst(list) == [val |-> list[1], rest |-> Tail(list)]

\* the number of rounds of `for i in range(br_factor)`
RangeLenInclusive(n) == IF n + 1 > 0 THEN n + 1 ELSE 0
RangeLen(n) == IF n > 0 THEN n ELSE 0

RECURSIVE gen_tree(_, _, _, _, _, _)
RECURSIVE gen_children(_, _, _, _, _, _, _)

\* `frames` counts the gen_tree frames on the stack, this one included
gen_tree(d, max, br, name, list, frames) ==
    IF frames > RecursionLimit THEN Raise("RecursionError", list)
    ELSE IF d = 0 THEN
        IF list = <<>> THEN Raise("IndexError", list)
        ELSE LET t == TakeFirst(list) IN Return(LeafNode(name, t.val), t.rest)
    ELSE gen_children(0, Node(name), d, max, br, list, frames)

\* the loop of lines 60-70 from round i on, `node` holding the children so far
gen_children(i, node, d, max, br, list, frames) ==
    IF i >= RangeLen(br) THEN Return(node, list)
    ELSE LET child_name == ChildName(node.name, i, max)
             r == gen_tree(d - 1, ~max, br, child_name, list, frames + 1)
         IN  IF r.err # "none" THEN r
             ELSE gen_children(i + 1,
                      [node EXCEPT !.child_nodes = Append(@, r.node)],
                      d, max, br, r.leaf_values, frames)

----------------------------------------------------------------------------
(* The inputs of gen_tree.                                                 *)

GenVals == {Py(1), Py(2), Py(3)}

RECURSIVE Lists(_, _)
Lists(vals, n) ==
    IF n = 0 THEN {<<>>}
    ELSE LET shorter == Lists(vals, n - 1)
         IN  shorter \cup {Append(l, v) : l \in {s \in shorter : Len(s) = n - 1}, v \in vals}

InitGen ==
    /\ pc = "start"
    /\ call = "gen_tree"
    /\ depth \in -1 .. MaxDepth
    /\ br_factor \in -1 .. MaxBr
    /\ is_max \in BOOLEAN
    /\ leaf_values \in Lists(GenVals, MaxLen)
    /\ leaf_values_before = leaf_values
    /\ T = None
    /\ err = "none"
    /\ alpha = MIN_VALUE
    /\ beta = MAX_VALUE
    /\ verbose = TRUE
    /\ value = None
    /\ out = <<>>
    /\ hist = <<>>

\* T = gen_tree(depth, is_max, br_factor, 'A', leaf_values)
GenTree ==
    /\ pc = "start"
    /\ call = "gen_tree"
    /\ LET r == gen_tree(depth, is_max, br_factor, <<"A">>, leaf_values, 1)
       IN  /\ T' = r.node
           /\ leaf_values' = r.leaf_values
           /\ err' = r.err
    /\ pc' = "done"
    /\ UNCHANGED <<call, depth, br_factor, is_max, leaf_values_before,
                   alpha, beta, verbose, value, out, hist>>

SpecGen == InitGen /\ [][GenTree]_vars

----------------------------------------------------------------------------
(* alpha_beta.  The result is the value returned (v), the lines the call   *)
(* printed (out) and what the call did (hist).  `spaces`, a string of      *)
(* blanks, is its length.                                                  *)

indent(str) == str + 2

\* the default of alpha_beta's verbose parameter (line 94), which the
\* recursive calls of lines 121 and 143 take, passing none
DefaultVerbose == TRUE

\* print(...) under `if verbose:`
Emit(verb, line) == IF verb THEN <<line>> ELSE <<>>

\* v = MIN_VALUE at a max node, v = MAX_VALUE at a min node
InitialVSwapped(max) == IF max THEN MAX_VALUE ELSE MIN_VALUE
InitialV(max) == IF max THEN MIN_VALUE ELSE MAX_VALUE

PyMax(x, y) == IF Gt(y, x) THEN y ELSE x

PyMin(x, y) == IF Lt(y, x) THEN y ELSE x

\* if beta <= alpha: break
NeverCutOff(a, b) == FALSE
CutOff(a, b) == Le(b, a)

Visit(node) == [did |-> "visit", name |-> node.name]

Update(bound, node, old, new, verb) ==
    [did |-> "update", bound |-> bound, name |-> node.name,
     old |-> old, new |-> new, printed |-> verb]

\* child i (from 0) of `node` is done, the bounds being a and b
Processed(node, i, a, b) ==
    [did |-> "processed", name |-> node.name, i |-> i, alpha |-> a, beta |-> b]

Nothing(v) == [v |-> v, out |-> <<>>, hist |-> <<>>]

RECURSIVE alpha_beta(_, _, _, _, _, _)
RECURSIVE max_loop(_, _, _, _, _, _, _)
RECURSIVE min_loop(_, _, _, _, _, _, _)

alpha_beta(node, a, b, max, spaces, verb) ==
    IF node.type = "LeafNode" THEN
        [v    |-> node.eval,
         out  |-> Emit(verb, [line |-> "eval", spaces |-> spaces,
                              name |-> node.name, eval |-> node.eval]),
         hist |-> <<Visit(node)>>]
    ELSE
        LET r == IF max THEN max_loop(node, 1, InitialV(TRUE), a, b, spaces, verb)
                 ELSE min_loop(node, 1, InitialV(FALSE), a, b, spaces, verb)
        IN  [v    |-> r.v,
             out  |-> Emit(verb, [line |-> "node", spaces |-> spaces,
                                  name |-> node.name, alpha |-> a, beta |-> b,
                                  is_max |-> max])
                      \o r.out
                      \o Emit(verb, [line |-> "returning value", spaces |-> spaces,
                                     name |-> node.name, v |-> r.v]),
             hist |-> <<Visit(node)>> \o r.hist]

\* the loop of lines 120-135 from child_nodes[i] on (i from 1)
max_loop(node, i, v, a, b, spaces, verb) ==
    IF i > Len(node.child_nodes) THEN Nothing(v)
    ELSE
        LET ab == alpha_beta(node.child_nodes[i], a, b, FALSE, indent(spaces),
                             DefaultVerbose)
            v1 == PyMax(v, ab.v)
            raised == Gt(v1, a)
            a1 == IF raised THEN v1 ELSE a
            cut == CutOff(a1, b)
            rest == IF cut THEN Nothing(v1)
                    ELSE max_loop(node, i + 1, v1, a1, b, spaces, verb)
        IN  [v    |-> rest.v,
             out  |-> ab.out
                      \o (IF raised
                          THEN Emit(verb, [line |-> "updating alpha", spaces |-> spaces,
                                           name |-> node.name, old |-> a, new |-> v1])
                          ELSE <<>>)
                      \o (IF cut
                          THEN Emit(verb, [line |-> "BETA cut-off", spaces |-> spaces,
                                           alpha |-> a1, beta |-> b])
                          ELSE <<>>)
                      \o rest.out,
             hist |-> ab.hist
                      \o (IF raised THEN <<Update("alpha", node, a, v1, verb)>> ELSE <<>>)
                      \o <<Processed(node, i - 1, a1, b)>>
                      \o rest.hist]

\* the loop of lines 142-157 from child_nodes[i] on (i from 1); line 148
\* formats the old bound of the update line with beta=alpha
min_loop(node, i, v, a, b, spaces, verb) ==
    IF i > Len(node.child_nodes) THEN Nothing(v)
    ELSE
        LET ab == alpha_beta(node.child_nodes[i], a, b, TRUE, indent(spaces),
                             DefaultVerbose)
            v1 == PyMin(ab.v, v)
            lowered == Lt(v1, b)
            b1 == IF lowered THEN v1 ELSE b
            cut == CutOff(a, b1)
            rest == IF cut THEN Nothing(v1)
                    ELSE min_loop(node, i + 1, v1, a, b1, spaces, verb)
        IN  [v    |-> rest.v,
             out  |-> ab.out
                      \o (IF lowered
                          THEN Emit(verb, [line |-> "updating beta", spaces |-> spaces,
                                           name |-> node.name, old |-> a, new |-> v1])
                          ELSE <<>>)
                      \o (IF cut
                          THEN Emit(verb, [line |-> "ALPHA cut-off", spaces |-> spaces,
                                           alpha |-> a, beta |-> b1])
                          ELSE <<>>)
                      \o rest.out,
             hist |-> ab.hist
                      \o (IF lowered THEN <<Update("beta", node, b, v1, verb)>> ELSE <<>>)
                      \o <<Processed(node, i - 1, a, b1)>>
                      \o rest.hist]

alpha_beta_root(node, max) == alpha_beta(node, MIN_VALUE, MAX_VALUE, max, 0, DefaultVerbose)

----------------------------------------------------------------------------
(* The inputs of the search: every tree of at most MaxNodes nodes, a node  *)
(* without children being a LeafNode or a Node whose child_nodes is empty, *)
(* named as gen_tree names the nodes under a max root 'A'; and the trees   *)
(* gen_tree(2, True, 2, 'A', ...) builds.                                  *)

MaxNodes == 5

RECURSIVE TreesOfSize(_, _, _, _, _)
RECURSIVE Forests(_, _, _, _, _, _)

\* the trees of exactly n nodes under the root `name`
TreesOfSize(n, name, max, vals, childless) ==
    IF n = 1
    THEN {LeafNode(name, v) : v \in vals} \cup (IF childless THEN {Node(name)} ELSE {})
    ELSE {[Node(name) EXCEPT !.child_nodes = f] :
              f \in Forests(n - 1, name, 0, max, vals, childless)}

\* the child lists of n nodes in all for the node `name`, from child i on
Forests(n, name, i, max, vals, childless) ==
    IF n = 0 THEN {<<>>}
    ELSE UNION {{<<t>> \o f :
                    t \in TreesOfSize(j, ChildName(name, i, max), ~max, vals, childless),
                    f \in Forests(n - j, name, i + 1, max, vals, childless)} :
                j \in 1 .. n}

TreesUpTo(n, vals, childless) ==
    UNION {TreesOfSize(k, <<"A">>, TRUE, vals, childless) : k \in 1 .. n}

ExampleVals == {Py(2), Py(3), Py(5), Py(9)}

ExampleTrees ==
    {gen_tree(2, TRUE, 2, <<"A">>, l, 1).node : l \in [1 .. 4 -> ExampleVals]}

SearchVals == {Pred(MIN_VALUE), Py(2), Py(3), Py(5), Succ(MAX_VALUE)}

SearchTrees == TreesUpTo(MaxNodes, SearchVals, TRUE) \cup ExampleTrees

WindowVals == {Py(1), Py(2), Py(3)}

WindowTrees == TreesUpTo(MaxNodes, WindowVals, FALSE)

WindowBounds ==
    WindowVals \cup {Pred(MIN_VALUE), MIN_VALUE, MAX_VALUE, Succ(MAX_VALUE)}

InitCall(trees, calls, windows, verbs) ==
    /\ pc = "start"
    /\ call \in calls
    /\ T \in trees
    /\ is_max \in BOOLEAN
    /\ \E w \in windows : alpha = w[1] /\ beta = w[2]
    /\ verbose \in IF call = "alpha_beta_root" THEN {DefaultVerbose} ELSE verbs
    /\ depth = 0
    /\ br_factor = 0
    /\ leaf_values = <<>>
    /\ leaf_values_before = <<>>
    /\ err = "none"
    /\ value = None
    /\ out = <<>>
    /\ hist = <<>>

\* alpha_beta_root(T, is_max), or alpha_beta(T, MIN_VALUE, MAX_VALUE, is_max, '', verbose)
InitSearch ==
    InitCall(SearchTrees, {"alpha_beta_root", "alpha_beta"},
             {<<MIN_VALUE, MAX_VALUE>>}, BOOLEAN)

\* alpha_beta(T, alpha, beta, is_max, '') with alpha < beta
InitWindow ==
    InitCall(WindowTrees, {"alpha_beta"},
             {w \in WindowBounds \X WindowBounds : Lt(w[1], w[2])}, {TRUE})

Returned(r) ==
    /\ value' = r.v
    /\ out' = r.out
    /\ hist' = r.hist
    /\ pc' = "done"
    /\ UNCHANGED <<call, depth, br_factor, is_max, leaf_values, leaf_values_before,
                   T, err, alpha, beta, verbose>>

\* value = alpha_beta_root(T, is_max)
AlphaBetaRoot ==
    /\ pc = "start"
    /\ call = "alpha_beta_root"
    /\ Returned(alpha_beta_root(T, is_max))

\* value = alpha_beta(T, alpha, beta, is_max, '', verbose)
AlphaBeta ==
    /\ pc = "start"
    /\ call = "alpha_beta"
    /\ Returned(alpha_beta(T, alpha, beta, is_max, 0, verbose))

SpecSearch == InitSearch /\ [][AlphaBetaRoot \/ AlphaBeta]_vars

SpecWindow == InitWindow /\ [][AlphaBeta]_vars

----------------------------------------------------------------------------
(* What the claims speak of.                                               *)

IsTree(t) == t.type \in {"Node", "LeafNode"}

RECURSIVE PreorderLeaves(_)
RECURSIVE PreorderLeavesFrom(_, _)

\* the LeafNodes of t, in pre-order, left to right
PreorderLeaves(t) ==
    IF t.type = "LeafNode" THEN <<t>> ELSE PreorderLeavesFrom(t.child_nodes, 1)

PreorderLeavesFrom(children, i) ==
    IF i > Len(children) THEN <<>>
    ELSE PreorderLeaves(children[i]) \o PreorderLeavesFrom(children, i + 1)

RECURSIVE Uniform(_, _, _)

\* every LeafNode of t lies d levels below t, and every other node has b children
Uniform(t, d, b) ==
    IF t.type = "LeafNode" THEN d = 0
    ELSE /\ d > 0
         /\ Len(t.child_nodes) = b
         /\ \A i \in 1 .. b : Uniform(t.child_nodes[i], d - 1, b)

GenDone == pc = "done" /\ call = "gen_tree"

Needed == br_factor ^ depth

----------------------------------------------------------------------------
\* C2: for depth D >= 0, branching factor B >= 1 and a list of at least B^D
\* values, gen_tree returns a tree of exactly B^D LeafNodes, all D levels below
\* the root, whose other nodes have exactly B children each, and it removes
\* exactly the first B^D values of the list, leaving the rest as they were.
C2_LeafCount ==
    (GenDone /\ depth >= 0 /\ br_factor >= 1 /\ Len(leaf_values_before) >= Needed)
    => /\ err = "none"
       /\ IsTree(T)
       /\ Len(PreorderLeaves(T)) = Needed
       /\ Uniform(T, depth, br_factor)
       /\ leaf_values = SubSeq(leaf_values_before, Needed + 1, Len(leaf_values_before))

C2_Witness ==
    /\ GenDone
    /\ depth = 2
    /\ br_factor = 2
    /\ Len(leaf_values_before) = 5
    /\ Len(leaf_values) = 1
    /\ Len(PreorderLeaves(T)) = 4

\* C3: the i-th LeafNode of the returned tree, in pre-order, has as its eval
\* the i-th value of the list as it was before the call.
C3_PreorderValues ==
    (GenDone /\ err = "none")
    => LET leaves == PreorderLeaves(T)
       IN  /\ Len(leaves) <= Len(leaf_values_before)
           /\ \A i \in 1 .. Len(leaves) : leaves[i].eval = leaf_values_before[i]

C3_Witness ==
    /\ GenDone
    /\ err = "none"
    /\ leaf_values_before = <<Py(3), Py(1), Py(2), Py(1), Py(3)>>
    /\ Len(PreorderLeaves(T)) = 4
    /\ PreorderLeaves(T)[3].eval = Py(2)

\* C4: for depth D >= 0, branching factor B >= 1 and a list of fewer than B^D
\* values, gen_tree raises on the exhausted list (IndexError), returns no tree
\* and leaves the list empty; so it does for depth 2, branching factor 2 and
\* the list [1, 2, 3].
C4_Exhaustion ==
    (GenDone /\ depth >= 0 /\ br_factor >= 1 /\ Len(leaf_values_before) < Needed)
    => /\ err = "IndexError"
       /\ T = None
       /\ leaf_values = <<>>

C4_Witness ==
    /\ GenDone
    /\ depth = 2
    /\ br_factor = 2
    /\ leaf_values_before = <<Py(1), Py(2), Py(3)>>
    /\ err = "IndexError"
    /\ leaf_values = <<>>

\* C5: gen_tree called with depth < 0 or with branching factor <= 0 ends with
\* an error and returns no tree (in particular no node without children).
C5_InvalidParameter ==
    (GenDone /\ (depth < 0 \/ br_factor <= 0))
    => /\ err # "none"
       /\ T = None

----------------------------------------------------------------------------
RECURSIVE Minimax(_, _)
RECURSIVE MinimaxFrom(_, _, _)

\* the value of t by exhaustive min/max evaluation, every node of t that is
\* not a LeafNode having a child
Minimax(t, max) ==
    IF t.type = "LeafNode" THEN t.eval ELSE MinimaxFrom(t.child_nodes, 1, max)

MinimaxFrom(children, i, max) ==
    LET x == Minimax(children[i], ~max)
    IN  IF i = Len(children) THEN x
        ELSE LET y == MinimaxFrom(children, i + 1, max)
             IN  IF max THEN (IF Lt(x, y) THEN y ELSE x)
                 ELSE (IF Lt(y, x) THEN y ELSE x)

RECURSIVE Nodes(_)

\* the nodes of t, each with the subtree under it
Nodes(t) == {t} \cup UNION {Nodes(t.child_nodes[i]) : i \in 1 .. Len(t.child_nodes)}

Names(t) == {n.name : n \in Nodes(t)}

Childless(n) == n.type = "Node" /\ n.child_nodes = <<>>

WellFormed(t) == \A n \in Nodes(t) : ~Childless(n)

InRange(t) ==
    \A n \in Nodes(t) :
        n.type = "LeafNode" => (Lt(MIN_VALUE, n.eval) /\ Lt(n.eval, MAX_VALUE))

SearchDone == pc = "done" /\ call \in {"alpha_beta_root", "alpha_beta"}

\* the names of the nodes alpha_beta was called on
VisitedNames == {hist[k].name : k \in {j \in 1 .. Len(hist) : hist[j].did = "visit"}}

\* the names of the nodes under the children of the node `name` of T that
\* come after its child i (from 0)
LaterSiblings(name, i) ==
    LET n == CHOOSE x \in Nodes(T) : x.name = name
    IN  UNION {Names(n.child_nodes[j]) : j \in i + 2 .. Len(n.child_nodes)}

ExampleTree ==
    gen_tree(2, TRUE, 2, <<"A">>, <<Py(3), Py(5), Py(2), Py(9)>>, 1).node

----------------------------------------------------------------------------
\* C1: on a tree whose internal nodes all have a child, whatever integers its
\* leaves hold, alpha_beta_root returns the exhaustive minimax value.
C1_RootIsMinimax ==
    (pc = "done" /\ call = "alpha_beta_root" /\ WellFormed(T))
    => value = Minimax(T, is_max)

\* C6: a search that reaches a node that is no LeafNode and has no children
\* fails, and returns no value.
C6_MalformedTree ==
    (SearchDone /\ \E n \in Nodes(T) : Childless(n) /\ n.name \in VisitedNames)
    => /\ err # "none"
       /\ value = None

\* C7: once a child of a node is done with beta <= alpha, no later child of
\* that node and no node under one is visited; and the search of the tree of
\* depth 2 and branching factor 2 over the leaves [3, 5, 2, 9], max at the
\* root, visits fewer than 4 leaves, never the leaf 9, and returns 3.
C7_Pruning ==
    SearchDone
    => /\ \A k \in 1 .. Len(hist) :
              (hist[k].did = "processed" /\ Le(hist[k].beta, hist[k].alpha))
              => LaterSiblings(hist[k].name, hist[k].i) \cap VisitedNames = {}
       /\ (T = ExampleTree /\ is_max)
          => /\ value = Py(3)
             /\ Cardinality({l.name : l \in {n \in Nodes(T) : n.type = "LeafNode"}}
                            \cap VisitedNames) < 4
             /\ <<"A", "b", "B">> \notin VisitedNames

C7_Witness ==
    /\ SearchDone
    /\ call = "alpha_beta_root"
    /\ T = ExampleTree
    /\ is_max
    /\ value = Py(3)
    /\ \E k \in 1 .. Len(hist) :
          /\ hist[k].did = "processed"
          /\ hist[k].name = <<"A", "b">>
          /\ hist[k].i = 0
          /\ Le(hist[k].beta, hist[k].alpha)

\* C8: each printed bound update reports the value the bound had before the
\* update and the value it has after it (stated for the trees whose internal
\* nodes all have a child and whose leaves lie between the two sentinels).
C8_UpdateLines ==
    (SearchDone /\ WellFormed(T) /\ InRange(T))
    => LET IsUpdateLine(l) == l.line \in {"updating alpha", "updating beta"}
           IsPrintedUpdate(h) == h.did = "update" /\ h.printed
           printed == SelectSeq(out, IsUpdateLine)
           updates == SelectSeq(hist, IsPrintedUpdate)
       IN  /\ Len(printed) = Len(updates)
           /\ \A k \in 1 .. Len(printed) :
                  /\ printed[k].old = updates[k].old
                  /\ printed[k].new = updates[k].new

\* C9: alpha_beta called with verbose=False prints nothing, for no node of the
\* tree, and returns what the call with verbose=True returns (stated for the
\* trees whose internal nodes all have a child and whose leaves lie between
\* the two sentinels).
C9_Quiet ==
    (pc = "done" /\ call = "alpha_beta" /\ ~verbose /\ WellFormed(T) /\ InRange(T))
    => /\ out = <<>>
       /\ value = alpha_beta(T, alpha, beta, is_max, 0, TRUE).v

\* C10: on a tree whose internal nodes all have a child and whose leaves lie
\* strictly between MIN_VALUE and MAX_VALUE, with alpha < beta, m the minimax
\* value and r the value alpha_beta returns: r = m if alpha < m < beta,
\* m <= r <= alpha if m <= alpha, and beta <= r <= m if m >= beta.
C10_FailSoft ==
    (pc = "done" /\ call = "alpha_beta" /\ WellFormed(T) /\ InRange(T)
        /\ Lt(alpha, beta))
    => LET m == Minimax(T, is_max)
           r == value
       IN  /\ (Lt(alpha, m) /\ Lt(m, beta)) => r = m
           /\ Le(m, alpha) => (Le(m, r) /\ Le(r, alpha))
           /\ Le(beta, m) => (Le(beta, r) /\ Le(r, m))

C10_Witness ==
    /\ pc = "done"
    /\ call = "alpha_beta"
    /\ WellFormed(T)
    /\ InRange(T)
    /\ Len(T.child_nodes) = 2
    /\ alpha = Py(1)
    /\ beta = Py(2)
    /\ Minimax(T, is_max) = Py(3)
    /\ value = Py(2)

====
